---- MODULE Spec2Model ----
(***************************************************************************)
(* PhishGuard backend (Express + mongoose): campaign dispatch, the click /  *)
(* credential recording handlers, the statistics and report handlers, and  *)
(* the education / certificate handlers, as a state machine.               *)
(*                                                                         *)
(* State: the MongoDB collections User, Campaign, Click, Credential,       *)
(* EducationProgress and the handler invocations in flight.                *)
(* users is the User collection as the sequence of its _ids in insertion   *)
(* order, department the department of each stored user.                   *)
(*  Every `await` of a handler is a     *)
(* point where other requests interleave, so a handler is one action per   *)
(* awaited store or Mailer operation; the synchronous code that follows    *)
(* an await (checks, counters, the response) belongs to the same action.   *)
(*                                                                         *)
(* Ids are well-formed ObjectIds, numbered from 1; Absent is `undefined`.  *)
(* Click's token, ipAddress and userAgent are copied from the request      *)
(* unchanged and no handler branches on them: they are left out.           *)
(***************************************************************************)
EXTENDS Integers, Sequences, FiniteSets, TLC

VARIABLES users, department, campaigns, clicks, credentials, progress, req

vars == <<users, department, campaigns, clicks, credentials, progress, req>>

(* ------------------------------- bounds -------------------------------- *)

\* Cap on the stored Click and Credential events together.
MaxEvents == 2
\* Longest text of a request field, longest targetUsers list, largest counter
\* a request body carries.
MaxTextLen == 1
MaxTargets == 2
MaxBodyCount == 1
\* Most Click events and most Credential events of a store that the
\* statistics and report handlers read.
MaxReportClicks == 3
MaxReportCredentials == 2
\* Largest id of an education module.
MaxModule == 3

Absent == 0

\* The ObjectIds of users and of campaigns that requests name.
UserIds == {1, 2}

CampIds == {1}

\* Handler invocations that can be in flight at once.
Slots == {1, 2}

(* ------------------------------ documents ------------------------------ *)

Null == [isNull |-> TRUE]

NoBody == [isNull |-> TRUE]

SeqToSet(s) == {s[k] : k \in 1..Len(s)}

\* Model.findById(id): the stored document, or null.
CampaignFindById(c) ==
    IF c \in DOMAIN campaigns THEN campaigns[c] ELSE Null

UserFindById(u) ==
    IF u \in SeqToSet(users) THEN [_id |-> u] ELSE Null

\* new Click({campaignId, userId, token, ipAddress, userAgent})
NewClick(c, u) == [campaignId |-> c, userId |-> u]

\* new Credential({campaignId, userId, attempted: true})
NewCredential(c, u) == [campaignId |-> c, userId |-> u, attempted |-> TRUE]

\* The document with the submitted email kept in it.
CredentialWithEmail(r) ==
    [campaignId |-> r.campaignId, userId |-> r.userId, attempted |-> TRUE,
     email |-> r.secret.email]

\* The Credential a credential-recording request r saves: of the body's
\* campaignId, userId, email and password, the first two are passed on.
CredentialOf(r) == NewCredential(r.campaignId, r.userId)

\* The increment as a read-modify-write: the handler writes back the clicks
\* of the document it read with findById, plus one.
IncClicksReadModifyWrite(i) ==
    LET c == req[i].campaignId IN
    IF c \notin DOMAIN campaigns THEN campaigns
    ELSE IF req[i].campaign = Null
    THEN [campaigns EXCEPT ![c].clicks = @ + 1]
    ELSE [campaigns EXCEPT ![c].clicks = req[i].campaign.clicks + 1]

\* Campaign.findByIdAndUpdate(id, { $inc: { clicks: 1 } }): one atomic update of
\* the stored document; no document matches an id that is not stored.
IncClicks(i) ==
    LET c == req[i].campaignId IN
    IF c \in DOMAIN campaigns
    THEN [campaigns EXCEPT ![c].clicks = @ + 1]
    ELSE campaigns

\* The update with the counter of the click handler left in place.
IncCredentialsWrongCounter(i) ==
    LET c == req[i].campaignId IN
    IF c \in DOMAIN campaigns
    THEN [campaigns EXCEPT ![c].clicks = @ + 1]
    ELSE campaigns

\* Campaign.findByIdAndUpdate(id, { $inc: { credentials: 1 } })
IncCredentials(i) ==
    LET c == req[i].campaignId IN
    IF c \in DOMAIN campaigns
    THEN [campaigns EXCEPT ![c].credentials = @ + 1]
    ELSE campaigns

(* ------------------------------ requests ------------------------------- *)

\* The email and password of a request body; NoSecret is a body with neither.
NoSecret == [email |-> [undefined |-> TRUE], password |-> [undefined |-> TRUE]]

IdleReq ==
    [op |-> "idle", pc |-> "idle", campaignId |-> Absent, userId |-> Absent,
     body |-> NoBody, campaign |-> Null, user |-> Null, found |-> <<>>,
     sends |-> <<>>, emailsSent |-> 0, emailsFailed |-> 0,
     secret |-> NoSecret, logged |-> <<>>,
     read |-> [users |-> <<>>, campaigns |-> <<>>, clicks |-> <<>>,
               credentials |-> <<>>],
     result |-> <<>>,
     moduleId |-> Absent, doc |-> Absent, progress |-> Null,
     status |-> 0, location |-> <<>>]

Done(r, code) == [r EXCEPT !.pc = "done", !.status = code]

EventRoom == Len(clicks) + Len(credentials) < MaxEvents

Init ==
    /\ users = <<>>
    /\ department = <<>>
    /\ campaigns = <<>>
    /\ clicks = <<>>
    /\ credentials = <<>>
    /\ progress = <<>>
    /\ req = [i \in Slots |-> IdleReq]

(* ------------------------------- users --------------------------------- *)

\* POST /api/users: new User(req.body).save(), d the body's department.
CreateUser(u, d) ==
    /\ u \notin SeqToSet(users)
    /\ users' = Append(users, u)
    /\ department' = department @@ (u :> d)
    /\ UNCHANGED <<campaigns, clicks, credentials, progress, req>>

(* ------------------------ POST /api/campaigns -------------------------- *)

\* A request text field: undefined, or a string as its sequence of characters.
Undefined == [undefined |-> TRUE]

Str(s) == [chars |-> s]

Chars == {" ", "a"}

RECURSIVE TrimStart(_)
TrimStart(s) ==
    IF s # <<>> /\ Head(s) = " " THEN TrimStart(Tail(s)) ELSE s

RECURSIVE TrimEnd(_)
TrimEnd(s) ==
    IF s # <<>> /\ s[Len(s)] = " " THEN TrimEnd(SubSeq(s, 1, Len(s) - 1)) ELSE s

\* String.prototype.trim
Trim(s) == TrimEnd(TrimStart(s))

\* The check without the trim: !x
BlankFieldNoTrim(x) ==
    \/ x = Undefined
    \/ x.chars = <<>>

\* !x || !x.trim()
BlankField(x) ==
    \/ x = Undefined
    \/ x.chars = <<>>
    \/ Trim(x.chars) = <<>>

\* !req.body.targetUsers || req.body.targetUsers.length === 0
NoTargets(t) ==
    \/ t = Undefined
    \/ Len(t.items) = 0

\* The four checks at the head of the handler, in their order: the error of
\* the first that fails, or "" when the request passes.
ValidationError(b) ==
    IF BlankField(b.name) THEN "El nombre de la campaña es requerido"
    ELSE IF BlankField(b.customSubject) THEN "El asunto del email es requerido"
    ELSE IF BlankField(b.customBody) THEN "El cuerpo del email es requerido"
    ELSE IF NoTargets(b.targetUsers)
    THEN "Debes seleccionar al menos un usuario objetivo"
    ELSE ""

\* new Campaign(req.body): every schema path the body carries is taken from
\* it; status defaults to 'active' and clicks and credentials to 0 when the
\* body has none (a body without clicks is the body with clicks 0).
\* name, customSubject and customBody are stored as given and never read
\* again by a handler: the stored document is modelled without them.
NewCampaign(b) ==
    [targetUsers |-> b.targetUsers.items,
     status |-> IF b.status = Undefined THEN "active" ELSE b.status.value,
     clicks |-> b.clicks, credentials |-> b.credentials]

Referenced(c) ==
    \/ \E k \in 1..Len(clicks) : clicks[k].campaignId = c
    \/ \E k \in 1..Len(credentials) : credentials[k].campaignId = c

\* An ObjectId mongoose can generate for a document whose body has no _id:
\* one no stored document has and no stored event names.
Fresh(c) == c \notin DOMAIN campaigns /\ ~Referenced(c)

\* User.find({ _id: { $in: targetUsers } }): the stored users among the
\* targets, each once, in the collection's order.
RECURSIVE Select(_, _)
Select(s, T) ==
    IF s = <<>> THEN <<>>
    ELSE IF Head(s) \in T THEN <<Head(s)>> \o Select(Tail(s), T)
    ELSE Select(Tail(s), T)

UserFindIn(targets) == Select(users, SeqToSet(targets))

\* res.status(201).json({ campaign, message, emailsSent, emailsFailed })
Created(r) == Done(r, 201)

\* Validation, new Campaign(req.body) and campaign.save().  id is the _id of
\* the document: the body's, or a generated one.  A save fails on a store
\* fault (ok = FALSE) or on an _id some stored campaign already has.
DispatchSave(i, b, id, ok) ==
    /\ req[i].op = "idle"
    /\ IF b._id = Absent THEN Fresh(id) ELSE id = b._id
    /\ LET r == [IdleReq EXCEPT !.op = "dispatch", !.body = b] IN
       IF ValidationError(b) # "" \/ ~ok \/ id \in DOMAIN campaigns
       THEN /\ campaigns' = campaigns
            /\ req' = [req EXCEPT ![i] = Done(r, 400)]
       ELSE /\ campaigns' = campaigns @@ (id :> NewCampaign(b))
            /\ req' = [req EXCEPT ![i] =
                 [r EXCEPT !.pc = "find", !.campaignId = id,
                           !.campaign = NewCampaign(b)]]
    /\ UNCHANGED <<users, clicks, credentials, department, progress>>

\* User.find(...) and, when it finds nobody, the response after the empty loop.
DispatchFindUsers(i, ok) ==
    /\ req[i].op = "dispatch" /\ req[i].pc = "find"
    /\ LET found == UserFindIn(req[i].body.targetUsers.items) IN
       req' = [req EXCEPT ![i] =
         IF ~ok THEN Done(@, 400)
         ELSE IF found = <<>> THEN Created(@)
         ELSE [@ EXCEPT !.found = found, !.pc = "send"]]
    /\ UNCHANGED <<users, campaigns, clicks, credentials, department, progress>>

\* The loop without its inner try/catch: a rejected sendMail reaches the
\* handler's catch, which answers 400.
DispatchSendMailRethrow(i, ok) ==
    /\ req[i].op = "dispatch" /\ req[i].pc = "send"
    /\ LET user == req[i].found[Len(req[i].sends) + 1]
           r == [req[i] EXCEPT
                   !.sends = Append(@, [to |-> user, ok |-> ok]),
                   !.emailsSent = IF ok THEN @ + 1 ELSE @]
       IN
       req' = [req EXCEPT ![i] =
         IF ~ok THEN Done(r, 400)
         ELSE IF Len(r.sends) = Len(r.found) THEN Created(r) ELSE r]
    /\ UNCHANGED <<users, campaigns, clicks, credentials, department, progress>>

\* One iteration of the send loop: transporter.sendMail for the next user,
\* which resolves (ok) or rejects; after the last user, the response.
DispatchSendMail(i, ok) ==
    /\ req[i].op = "dispatch" /\ req[i].pc = "send"
    /\ LET user == req[i].found[Len(req[i].sends) + 1]
           r == [req[i] EXCEPT
                   !.sends = Append(@, [to |-> user, ok |-> ok]),
                   !.emailsSent = IF ok THEN @ + 1 ELSE @,
                   !.emailsFailed = IF ok THEN @ ELSE @ + 1]
       IN
       req' = [req EXCEPT ![i] =
         IF Len(r.sends) = Len(r.found) THEN Created(r) ELSE r]
    /\ UNCHANGED <<users, campaigns, clicks, credentials, department, progress>>

\* transporter.sendMail for the next user returns a promise that never
\* settles: the handler stays at its await, which has no timeout.
DispatchSendMailHangs(i) ==
    /\ req[i].op = "dispatch" /\ req[i].pc = "send"
    /\ req' = [req EXCEPT ![i].pc = "hung"]
    /\ UNCHANGED <<users, department, campaigns, clicks, credentials, progress>>

(* --------------------- GET /track/:campaignId/:userId/:token ----------- *)

TrackFindCampaign(i, c, u, ok) ==
    /\ req[i].op = "idle"
    /\ req' = [req EXCEPT ![i] =
         IF ok
         THEN [IdleReq EXCEPT !.op = "track", !.pc = "findUser", !.campaignId = c,
                              !.userId = u, !.campaign = CampaignFindById(c)]
         ELSE Done([IdleReq EXCEPT !.op = "track", !.campaignId = c, !.userId = u], 500)]
    /\ UNCHANGED <<users, campaigns, clicks, credentials, department, progress>>

\* The check without its user half: if (!campaign)
TrackFindUserCampaignOnly(i, ok) ==
    /\ req[i].op = "track" /\ req[i].pc = "findUser"
    /\ LET user == UserFindById(req[i].userId) IN
       req' = [req EXCEPT ![i] =
         IF ~ok THEN Done(@, 500)
         ELSE IF req[i].campaign = Null
         THEN Done([@ EXCEPT !.user = user], 404)
         ELSE [@ EXCEPT !.user = user, !.pc = "save"]]
    /\ UNCHANGED <<users, campaigns, clicks, credentials, department, progress>>

\* User.findById(userId) and the check of both lookups.
TrackFindUser(i, ok) ==
    /\ req[i].op = "track" /\ req[i].pc = "findUser"
    /\ LET user == UserFindById(req[i].userId) IN
       req' = [req EXCEPT ![i] =
         IF ~ok THEN Done(@, 500)
         ELSE IF req[i].campaign = Null \/ user = Null
         THEN Done([@ EXCEPT !.user = user], 404)
         ELSE [@ EXCEPT !.user = user, !.pc = "save"]]
    /\ UNCHANGED <<users, campaigns, clicks, credentials, department, progress>>

TrackSaveClick(i, ok) ==
    /\ req[i].op = "track" /\ req[i].pc = "save"
    /\ IF ok
       THEN /\ EventRoom
            /\ clicks' = Append(clicks, NewClick(req[i].campaignId, req[i].userId))
            /\ req' = [req EXCEPT ![i].pc = "inc"]
       ELSE /\ clicks' = clicks
            /\ req' = [req EXCEPT ![i] = Done(@, 500)]
    /\ UNCHANGED <<users, campaigns, credentials, department, progress>>

TrackIncClicks(i, ok) ==
    /\ req[i].op = "track" /\ req[i].pc = "inc"
    /\ IF ok
       THEN /\ campaigns' = IncClicks(i)
            /\ req' = [req EXCEPT ![i] =
                 Done([@ EXCEPT !.location =
                         <<"phishing", req[i].campaignId, req[i].userId>>], 302)]
       ELSE /\ campaigns' = campaigns
            /\ req' = [req EXCEPT ![i] = Done(@, 500)]
    /\ UNCHANGED <<users, clicks, credentials, department, progress>>

(* ------------------------- POST /track/phishing ------------------------ *)

\* const { campaignId, userId, email, password } = req.body; the id check and
\* Campaign.findById(campaignId).
PhishingFindCampaign(i, c, u, s, ok) ==
    /\ req[i].op = "idle"
    /\ LET r == [IdleReq EXCEPT !.op = "phishing", !.campaignId = c, !.userId = u,
                                !.secret = s] IN
       req' = [req EXCEPT ![i] =
         IF c = Absent \/ u = Absent THEN Done(r, 400)
         ELSE IF ~ok THEN Done(r, 500)
         ELSE [r EXCEPT !.pc = "findUser", !.campaign = CampaignFindById(c)]]
    /\ UNCHANGED <<users, campaigns, clicks, credentials, department, progress>>

\* console.log(`   Email intentado: ${email || 'N/A'}`): the line written to
\* the console, which no collection holds.
EmailLogged(e) ==
    IF e = Undefined \/ e.chars = <<>> THEN Str(<<"N", "/", "A">>) ELSE e

\* The lookup with a check that the campaign targets the user.
PhishingFindUserTargetsOnly(i, ok) ==
    /\ req[i].op = "phishing" /\ req[i].pc = "findUser"
    /\ LET user == UserFindById(req[i].userId) IN
       req' = [req EXCEPT ![i] =
         IF ~ok THEN Done(@, 500)
         ELSE IF req[i].campaign = Null \/ user = Null
         THEN Done([@ EXCEPT !.user = user], 404)
         ELSE IF req[i].userId \notin SeqToSet(req[i].campaign.targetUsers)
         THEN Done([@ EXCEPT !.user = user], 404)
         ELSE [@ EXCEPT !.user = user, !.pc = "save"]]
    /\ UNCHANGED <<users, campaigns, clicks, credentials, department, progress>>

PhishingFindUser(i, ok) ==
    /\ req[i].op = "phishing" /\ req[i].pc = "findUser"
    /\ LET user == UserFindById(req[i].userId) IN
       req' = [req EXCEPT ![i] =
         IF ~ok THEN Done(@, 500)
         ELSE IF req[i].campaign = Null \/ user = Null
         THEN Done([@ EXCEPT !.user = user], 404)
         ELSE [@ EXCEPT !.user = user, !.pc = "save"]]
    /\ UNCHANGED <<users, campaigns, clicks, credentials, department, progress>>

PhishingSaveCredential(i, ok) ==
    /\ req[i].op = "phishing" /\ req[i].pc = "save"
    /\ IF ok
       THEN /\ EventRoom
            /\ credentials' = Append(credentials, CredentialOf(req[i]))
            /\ req' = [req EXCEPT ![i].pc = "inc"]
       ELSE /\ credentials' = credentials
            /\ req' = [req EXCEPT ![i] = Done(@, 500)]
    /\ UNCHANGED <<users, campaigns, clicks, department, progress>>

PhishingIncCredentials(i, ok) ==
    /\ req[i].op = "phishing" /\ req[i].pc = "inc"
    /\ IF ok
       THEN /\ campaigns' = IncCredentials(i)
            /\ req' = [req EXCEPT ![i] =
                 Done([@ EXCEPT !.logged = EmailLogged(req[i].secret.email),
                                !.location = <<"phishing", "success">>], 200)]
       ELSE /\ campaigns' = campaigns
            /\ req' = [req EXCEPT ![i] = Done(@, 500)]
    /\ UNCHANGED <<users, clicks, credentials, department, progress>>

(* ------------------------- POST /api/track/click ----------------------- *)

ApiClickSave(i, c, u, ok) ==
    /\ req[i].op = "idle"
    /\ LET r == [IdleReq EXCEPT !.op = "apiClick", !.campaignId = c, !.userId = u] IN
       IF ok
       THEN /\ EventRoom
            /\ clicks' = Append(clicks, NewClick(c, u))
            /\ req' = [req EXCEPT ![i] = [r EXCEPT !.pc = "inc"]]
       ELSE /\ clicks' = clicks
            /\ req' = [req EXCEPT ![i] = Done(r, 400)]
    /\ UNCHANGED <<users, campaigns, credentials, department, progress>>

ApiClickInc(i, ok) ==
    /\ req[i].op = "apiClick" /\ req[i].pc = "inc"
    /\ IF ok
       THEN /\ campaigns' = IncClicks(i)
            /\ req' = [req EXCEPT ![i] = Done(@, 200)]
       ELSE /\ campaigns' = campaigns
            /\ req' = [req EXCEPT ![i] = Done(@, 400)]
    /\ UNCHANGED <<users, clicks, credentials, department, progress>>

(* ---------------------- POST /api/track/credentials -------------------- *)

\* const { campaignId, userId } = req.body: whatever else the body carries
\* (s) is not read.
ApiCredentialsSave(i, c, u, s, ok) ==
    /\ req[i].op = "idle"
    /\ LET r == [IdleReq EXCEPT !.op = "apiCredentials", !.campaignId = c,
                                !.userId = u, !.secret = s] IN
       IF ok
       THEN /\ EventRoom
            /\ credentials' = Append(credentials, CredentialOf(r))
            /\ req' = [req EXCEPT ![i] = [r EXCEPT !.pc = "inc"]]
       ELSE /\ credentials' = credentials
            /\ req' = [req EXCEPT ![i] = Done(r, 400)]
    /\ UNCHANGED <<users, campaigns, clicks, department, progress>>

ApiCredentialsInc(i, ok) ==
    /\ req[i].op = "apiCredentials" /\ req[i].pc = "inc"
    /\ IF ok
       THEN /\ campaigns' = IncCredentials(i)
            /\ req' = [req EXCEPT ![i] = Done(@, 200)]
       ELSE /\ campaigns' = campaigns
            /\ req' = [req EXCEPT ![i] = Done(@, 400)]
    /\ UNCHANGED <<users, clicks, credentials, department, progress>>

(* -------------------------------- queries ------------------------------ *)

\* User.find(): the stored users, in the collection's order.
UserFind ==
    [k \in 1..Len(users) |-> [_id |-> users[k], department |-> department[users[k]]]]

\* Campaign.find(): the stored campaigns.
CampaignFind == campaigns

\* Click.find() and Credential.find()
ClickFind == clicks

CredentialFind == credentials

\* Click.find().populate('userId'): each Click with its userId replaced by the
\* stored User of that _id, or by null when none is stored.
ClickFindPopulated ==
    [k \in 1..Len(clicks) |->
        [campaignId |-> clicks[k].campaignId,
         userId |-> IF clicks[k].userId \in SeqToSet(users)
                    THEN [_id |-> clicks[k].userId,
                          department |-> department[clicks[k].userId]]
                    ELSE Null]]

\* A string in a condition: the empty string is falsy.
Truthy(str) == str # ""

\* A number formatted with one decimal: the digits before and after the point.
Decimal(w, t) == [whole |-> w, tenth |-> t]

\* Number.prototype.toFixed(1) of 0 / 0 and of n / 0, n > 0.
NotANumber == [text |-> "NaN"]

Infinite == [text |-> "Infinity"]

\* ((n / d) * 100).toFixed(1): the quotient in tenths of a percent, rounded
\* to the nearest.
PercentToFixed1(n, d) ==
    IF d = 0 THEN (IF n = 0 THEN NotANumber ELSE Infinite)
    ELSE LET tenths == (n * 2000 + d) \div (2 * d) IN
         Decimal(tenths \div 10, tenths % 10)

(* -------------------- GET /api/statistics/departments ------------------ *)

\* const departments = {}: the object as the sequence of its own entries in
\* the order of their creation.  departments[d] is the own entry of d, or
\* what the object inherits from Object.prototype under that name.
Inherited == {"constructor"}

OwnDepartment(deps, d) == \E k \in 1..Len(deps) : deps[k].department = d

\* departments[d] in a condition
HasDepartment(deps, d) == OwnDepartment(deps, d) \/ d \in Inherited

\* The forEach body with the entry created and its total left at 0.
CountUserNoIncrement(deps, user) ==
    IF OwnDepartment(deps, user.department) THEN
        [k \in 1..Len(deps) |->
            IF deps[k].department = user.department
            THEN [deps[k] EXCEPT !.total = @ + 1] ELSE deps[k]]
    ELSE IF user.department \in Inherited THEN deps
    ELSE Append(deps, [department |-> user.department, total |-> 0, clicked |-> 0])

\* if (!departments[user.department]) departments[user.department] =
\* { total: 0, clicked: 0 }; departments[user.department].total++
\* Under an inherited name no entry is created and the ++ lands on the
\* inherited value.
CountUser(deps, user) ==
    LET created == IF HasDepartment(deps, user.department) THEN deps
                   ELSE Append(deps, [department |-> user.department,
                                      total |-> 0, clicked |-> 0])
    IN [k \in 1..Len(created) |->
           IF created[k].department = user.department
           THEN [created[k] EXCEPT !.total = @ + 1] ELSE created[k]]

\* users.forEach(user => ...)
RECURSIVE CountUsers(_, _)
CountUsers(deps, us) ==
    IF us = <<>> THEN deps ELSE CountUsers(CountUser(deps, Head(us)), Tail(us))

\* users.find(u => u._id.toString() === userId.toString()), or null
FindIn(us, id) ==
    IF \E k \in 1..Len(us) : us[k]._id = id
    THEN us[CHOOSE k \in 1..Len(us) :
               us[k]._id = id /\ \A j \in 1..(k - 1) : us[j]._id # id]
    ELSE Null

\* The body of clicks.forEach: a click whose userId was populated counts for
\* the department of its user when that department is a truthy string with an
\* entry.
CountClick(deps, click, us) ==
    IF click.userId = Null THEN deps
    ELSE LET user == IF Truthy(click.userId.department) THEN click.userId
                     ELSE FindIn(us, click.userId._id)
         IN
         IF user # Null /\ Truthy(user.department)
               /\ HasDepartment(deps, user.department)
         THEN [k \in 1..Len(deps) |->
                  IF deps[k].department = user.department
                  THEN [deps[k] EXCEPT !.clicked = @ + 1] ELSE deps[k]]
         ELSE deps

RECURSIVE CountClicks(_, _, _)
CountClicks(deps, cs, us) ==
    IF cs = <<>> THEN deps
    ELSE CountClicks(CountClick(deps, Head(cs), us), Tail(cs), us)

\* total > 0 ? ((clicked / total) * 100).toFixed(1) : '0.0'
Rate(clicked, total) ==
    IF total > 0 THEN PercentToFixed1(clicked, total) ELSE Decimal(0, 0)

\* Object.keys(departments).map(dept => ({ department, total, clicked, rate }))
DepartmentRates(us, cs) ==
    LET deps == CountClicks(CountUsers(<<>>, us), cs, us) IN
    [k \in 1..Len(deps) |->
        [department |-> deps[k].department, total |-> deps[k].total,
         clicked |-> deps[k].clicked,
         rate |-> Rate(deps[k].clicked, deps[k].total)]]

DepartmentsFindUsers(i, ok) ==
    /\ req[i].op = "idle"
    /\ LET r == [IdleReq EXCEPT !.op = "departments"] IN
       req' = [req EXCEPT ![i] =
         IF ok THEN [r EXCEPT !.pc = "clicks", !.read.users = UserFind]
         ELSE Done(r, 500)]
    /\ UNCHANGED <<users, department, campaigns, clicks, credentials, progress>>

DepartmentsFindClicks(i, ok) ==
    /\ req[i].op = "departments" /\ req[i].pc = "clicks"
    /\ req' = [req EXCEPT ![i] =
         IF ok
         THEN Done([@ EXCEPT !.read.clicks = ClickFindPopulated,
                             !.result = DepartmentRates(req[i].read.users,
                                                        ClickFindPopulated)], 200)
         ELSE Done(@, 500)]
    /\ UNCHANGED <<users, department, campaigns, clicks, credentials, progress>>

(* ----------------------- GET /api/statistics/users --------------------- *)

\* events.filter(c => c.userId.toString() === user._id.toString()).length
CountOf(events, id) == Len(SelectSeq(events, LAMBDA e : e.userId = id))

\* The rule with its two tests in the other order.
StatisticsRiskClicksFirst(userClicks, userCreds) ==
    IF userClicks > 2 THEN "Medio" ELSE IF userCreds > 1 THEN "Alto" ELSE "Bajo"

\* userCreds > 1 ? 'Alto' : userClicks > 2 ? 'Medio' : 'Bajo'
StatisticsRisk(userClicks, userCreds) ==
    IF userCreds > 1 THEN "Alto" ELSE IF userClicks > 2 THEN "Medio" ELSE "Bajo"

\* users.map(user => ({ userId, department, clicks, credentials, risk }))
UserStats(us, cs, cr) ==
    [k \in 1..Len(us) |->
        LET userClicks == CountOf(cs, us[k]._id)
            userCreds == CountOf(cr, us[k]._id)
        IN [userId |-> us[k]._id, department |-> us[k].department,
            clicks |-> userClicks, credentials |-> userCreds,
            risk |-> StatisticsRisk(userClicks, userCreds)]]

StatisticsFindUsers(i, ok) ==
    /\ req[i].op = "idle"
    /\ LET r == [IdleReq EXCEPT !.op = "statistics"] IN
       req' = [req EXCEPT ![i] =
         IF ok THEN [r EXCEPT !.pc = "clicks", !.read.users = UserFind]
         ELSE Done(r, 500)]
    /\ UNCHANGED <<users, department, campaigns, clicks, credentials, progress>>

StatisticsFindClicks(i, ok) ==
    /\ req[i].op = "statistics" /\ req[i].pc = "clicks"
    /\ req' = [req EXCEPT ![i] =
         IF ok THEN [@ EXCEPT !.pc = "credentials", !.read.clicks = ClickFind]
         ELSE Done(@, 500)]
    /\ UNCHANGED <<users, department, campaigns, clicks, credentials, progress>>

StatisticsFindCredentials(i, ok) ==
    /\ req[i].op = "statistics" /\ req[i].pc = "credentials"
    /\ req' = [req EXCEPT ![i] =
         IF ok
         THEN Done([@ EXCEPT !.read.credentials = CredentialFind,
                             !.result = UserStats(req[i].read.users,
                                                  req[i].read.clicks,
                                                  CredentialFind)], 200)
         ELSE Done(@, 500)]
    /\ UNCHANGED <<users, department, campaigns, clicks, credentials, progress>>

(* --------------------- GET /api/reports/vulnerability ------------------ *)

\* userCreds > 1 ? 'high' : userClicks > 2 ? 'medium' : 'low'
ReportRisk(userClicks, userCreds) ==
    IF userCreds > 1 THEN "high" ELSE IF userClicks > 2 THEN "medium" ELSE "low"

\* The sum with each campaign's targets counted once each.
RECURSIVE TotalEmailsDistinct(_)
TotalEmailsDistinct(cs) ==
    IF DOMAIN cs = {} THEN 0
    ELSE LET c == CHOOSE x \in DOMAIN cs : TRUE IN
         Cardinality(SeqToSet(cs[c].targetUsers))
           + TotalEmailsDistinct([x \in DOMAIN cs \ {c} |-> cs[x]])

\* campaigns.reduce((sum, c) => sum + c.targetUsers.length, 0)
RECURSIVE TotalEmails(_)
TotalEmails(cs) ==
    IF DOMAIN cs = {} THEN 0
    ELSE LET c == CHOOSE x \in DOMAIN cs : TRUE IN
         Len(cs[c].targetUsers) + TotalEmails([x \in DOMAIN cs \ {c} |-> cs[x]])

\* The number 0 of the response, next to the strings toFixed returns.
Number(n) == [number |-> n]

\* totalEmails > 0 ? ((count / totalEmails) * 100).toFixed(1) : 0
AvgRate(count, totalEmails) ==
    IF totalEmails > 0 THEN PercentToFixed1(count, totalEmails) ELSE Number(0)

\* userStats.filter(u => u.risk === risk).length
RiskCount(us, cs, cr, risk) ==
    Cardinality({k \in 1..Len(us) :
        ReportRisk(CountOf(cs, us[k]._id), CountOf(cr, us[k]._id)) = risk})

VulnerabilityReport(us, camps, cs, cr) ==
    [totalUsers |-> Len(us),
     totalCampaigns |-> Cardinality(DOMAIN camps),
     highRisk |-> RiskCount(us, cs, cr, "high"),
     mediumRisk |-> RiskCount(us, cs, cr, "medium"),
     lowRisk |-> RiskCount(us, cs, cr, "low"),
     avgClickRate |-> AvgRate(Len(cs), TotalEmails(camps)),
     avgCredentialRate |-> AvgRate(Len(cr), TotalEmails(camps))]

ReportFindUsers(i, ok) ==
    /\ req[i].op = "idle"
    /\ LET r == [IdleReq EXCEPT !.op = "report"] IN
       req' = [req EXCEPT ![i] =
         IF ok THEN [r EXCEPT !.pc = "campaigns", !.read.users = UserFind]
         ELSE Done(r, 500)]
    /\ UNCHANGED <<users, department, campaigns, clicks, credentials, progress>>

ReportFindCampaigns(i, ok) ==
    /\ req[i].op = "report" /\ req[i].pc = "campaigns"
    /\ req' = [req EXCEPT ![i] =
         IF ok THEN [@ EXCEPT !.pc = "clicks", !.read.campaigns = CampaignFind]
         ELSE Done(@, 500)]
    /\ UNCHANGED <<users, department, campaigns, clicks, credentials, progress>>

ReportFindClicks(i, ok) ==
    /\ req[i].op = "report" /\ req[i].pc = "clicks"
    /\ req' = [req EXCEPT ![i] =
         IF ok THEN [@ EXCEPT !.pc = "credentials", !.read.clicks = ClickFind]
         ELSE Done(@, 500)]
    /\ UNCHANGED <<users, department, campaigns, clicks, credentials, progress>>

ReportFindCredentials(i, ok) ==
    /\ req[i].op = "report" /\ req[i].pc = "credentials"
    /\ req' = [req EXCEPT ![i] =
         IF ok
         THEN Done([@ EXCEPT !.read.credentials = CredentialFind,
                             !.result = VulnerabilityReport(req[i].read.users,
                                            req[i].read.campaigns,
                                            req[i].read.clicks,
                                            CredentialFind)], 200)
         ELSE Done(@, 500)]
    /\ UNCHANGED <<users, department, campaigns, clicks, credentials, progress>>

(* ------------------------------ education ------------------------------ *)

\* new EducationProgress({ userId, completedModules: [] })
NewProgress(u) ==
    [userId |-> u, completedModules |-> <<>>, certificateGenerated |-> FALSE]

\* EducationProgress.findOne({ userId }): the position in the collection of
\* the first document of the user, Absent when there is none.
FindOneProgress(u) ==
    IF \E k \in 1..Len(progress) : progress[k].userId = u
    THEN CHOOSE k \in 1..Len(progress) :
            /\ progress[k].userId = u
            /\ \A j \in 1..(k - 1) : progress[j].userId # u
    ELSE Absent

ProgressAt(k) == IF k = Absent THEN Null ELSE progress[k]

\* GET /api/education/:userId: findOne, and for a user without progress the
\* new document that the next step saves.
EducationFind(i, u, ok) ==
    /\ req[i].op = "idle"
    /\ LET r == [IdleReq EXCEPT !.op = "education", !.userId = u]
           k == FindOneProgress(u)
       IN
       req' = [req EXCEPT ![i] =
         IF ~ok THEN Done(r, 500)
         ELSE IF k = Absent
         THEN [r EXCEPT !.pc = "save", !.progress = NewProgress(u)]
         ELSE Done([r EXCEPT !.doc = k, !.progress = progress[k]], 200)]
    /\ UNCHANGED <<users, department, campaigns, clicks, credentials, progress>>

EducationSave(i, ok) ==
    /\ req[i].op = "education" /\ req[i].pc = "save"
    /\ IF ok
       THEN /\ progress' = Append(progress, req[i].progress)
            /\ req' = [req EXCEPT ![i] = Done([@ EXCEPT !.doc = Len(progress) + 1], 200)]
       ELSE /\ progress' = progress
            /\ req' = [req EXCEPT ![i] = Done(@, 500)]
    /\ UNCHANGED <<users, department, campaigns, clicks, credentials>>

\* The handler without the includes test: the module is always pushed.
CompleteFindAlwaysPush(i, u, m, ok) ==
    /\ req[i].op = "idle"
    /\ LET r == [IdleReq EXCEPT !.op = "complete", !.userId = u, !.moduleId = m]
           k == FindOneProgress(u)
           found == IF k = Absent THEN NewProgress(u) ELSE progress[k]
       IN
       req' = [req EXCEPT ![i] =
         IF ~ok THEN Done(r, 400)
         ELSE [r EXCEPT !.pc = "save", !.doc = k,
                        !.progress = [found EXCEPT !.completedModules = Append(@, m)]]]
    /\ UNCHANGED <<users, department, campaigns, clicks, credentials, progress>>

\* POST /api/education/:userId/complete: findOne, the new document when there
\* is none, and the includes test: a module already completed is answered
\* with the document as it is, another is pushed and the document saved.
CompleteFind(i, u, m, ok) ==
    /\ req[i].op = "idle"
    /\ LET r == [IdleReq EXCEPT !.op = "complete", !.userId = u, !.moduleId = m]
           k == FindOneProgress(u)
           found == IF k = Absent THEN NewProgress(u) ELSE progress[k]
       IN
       req' = [req EXCEPT ![i] =
         IF ~ok THEN Done(r, 400)
         ELSE IF m \in SeqToSet(found.completedModules)
         THEN Done([r EXCEPT !.doc = k, !.progress = found], 200)
         ELSE [r EXCEPT !.pc = "save", !.doc = k,
                        !.progress = [found EXCEPT !.completedModules = Append(@, m)]]]
    /\ UNCHANGED <<users, department, campaigns, clicks, credentials, progress>>

\* progress.save(): a new document is inserted; for a stored one the pushed
\* module is sent as a $push to the stored array.
CompleteSave(i, ok) ==
    /\ req[i].op = "complete" /\ req[i].pc = "save"
    /\ IF ok
       THEN /\ progress' =
                 IF req[i].doc = Absent THEN Append(progress, req[i].progress)
                 ELSE [progress EXCEPT ![req[i].doc].completedModules =
                         Append(@, req[i].moduleId)]
            /\ req' = [req EXCEPT ![i] = Done(@, 200)]
       ELSE /\ progress' = progress
            /\ req' = [req EXCEPT ![i] = Done(@, 400)]
    /\ UNCHANGED <<users, department, campaigns, clicks, credentials>>

(* ----------------------------- certificates ---------------------------- *)

\* !progress || progress.completedModules.length < 3
NotEligible(p) == p = Null \/ Len(p.completedModules) < 3

\* POST /api/certificates/generate: EducationProgress.findOne({ userId })
GenerateFindProgress(i, u, ok) ==
    /\ req[i].op = "idle"
    /\ LET r == [IdleReq EXCEPT !.op = "generate", !.userId = u]
           k == FindOneProgress(u)
       IN
       req' = [req EXCEPT ![i] =
         IF ~ok THEN Done(r, 400)
         ELSE [r EXCEPT !.pc = "findUser", !.doc = k, !.progress = ProgressAt(k)]]
    /\ UNCHANGED <<users, department, campaigns, clicks, credentials, progress>>

\* User.findById(userId) and the test of the progress.
GenerateFindUser(i, ok) ==
    /\ req[i].op = "generate" /\ req[i].pc = "findUser"
    /\ req' = [req EXCEPT ![i] =
         IF ~ok THEN Done(@, 400)
         ELSE IF NotEligible(req[i].progress)
         THEN Done([@ EXCEPT !.user = UserFindById(req[i].userId)], 400)
         ELSE [@ EXCEPT !.user = UserFindById(req[i].userId), !.pc = "save"]]
    /\ UNCHANGED <<users, department, campaigns, clicks, credentials, progress>>

\* progress.certificateGenerated = true; progress.save(); then the
\* certificate is built from user.name and user.email: with no such user the
\* read of user.name throws and the catch answers 400.
GenerateSave(i, ok) ==
    /\ req[i].op = "generate" /\ req[i].pc = "save"
    /\ IF ok
       THEN /\ progress' = [progress EXCEPT ![req[i].doc].certificateGenerated = TRUE]
            /\ req' = [req EXCEPT ![i] =
                 IF req[i].user = Null THEN Done(@, 400) ELSE Done(@, 200)]
       ELSE /\ progress' = progress
            /\ req' = [req EXCEPT ![i] = Done(@, 400)]
    /\ UNCHANGED <<users, department, campaigns, clicks, credentials>>

\* GET /api/certificates/download/:userId: EducationProgress.findOne
DownloadFindProgress(i, u, ok) ==
    /\ req[i].op = "idle"
    /\ LET r == [IdleReq EXCEPT !.op = "download", !.userId = u]
           k == FindOneProgress(u)
       IN
       req' = [req EXCEPT ![i] =
         IF ~ok THEN Done(r, 500)
         ELSE [r EXCEPT !.pc = "findUser", !.doc = k, !.progress = ProgressAt(k)]]
    /\ UNCHANGED <<users, department, campaigns, clicks, credentials, progress>>

\* User.findById, the two tests, and the PDF sent as the response; a progress
\* not yet marked is marked and saved after it.
DownloadFindUser(i, ok) ==
    /\ req[i].op = "download" /\ req[i].pc = "findUser"
    /\ LET user == UserFindById(req[i].userId) IN
       req' = [req EXCEPT ![i] =
         IF ~ok THEN Done(@, 500)
         ELSE IF user = Null THEN Done(@, 404)
         ELSE IF NotEligible(req[i].progress) THEN Done([@ EXCEPT !.user = user], 400)
         ELSE IF req[i].progress.certificateGenerated
         THEN Done([@ EXCEPT !.user = user], 200)
         ELSE [@ EXCEPT !.user = user, !.pc = "save", !.status = 200]]
    /\ UNCHANGED <<users, department, campaigns, clicks, credentials, progress>>

DownloadSave(i, ok) ==
    /\ req[i].op = "download" /\ req[i].pc = "save"
    /\ progress' = IF ok
                   THEN [progress EXCEPT ![req[i].doc].certificateGenerated = TRUE]
                   ELSE progress
    /\ req' = [req EXCEPT ![i] = Done(@, 200)]
    /\ UNCHANGED <<users, department, campaigns, clicks, credentials>>

(* ---------------------------- POST /api/init --------------------------- *)

\* The five users that User.insertMany creates, by the _ids it gives them,
\* with their departments.
SeedUsers == <<3, 4, 5, 6, 7>>

SeedDepartment == (3 :> "Ventas") @@ (4 :> "IT") @@ (5 :> "Finanzas")
                    @@ (6 :> "RRHH") @@ (7 :> "Ventas")

\* One await of the handler after the other: the step at pc `at` applies its
\* store operation and moves to `to`; a rejected operation is answered 500.
InitStep(i, at, to, ok) ==
    /\ IF at = "idle"
       THEN req[i].op = "idle"
       ELSE req[i].op = "init" /\ req[i].pc = at
    /\ LET r == IF at = "idle" THEN [IdleReq EXCEPT !.op = "init"] ELSE req[i] IN
       req' = [req EXCEPT ![i] =
         IF ~ok THEN Done(r, 500)
         ELSE IF to = "done" THEN Done(r, 200)
         ELSE [r EXCEPT !.pc = to]]

\* await User.deleteMany({})
InitDeleteUsers(i, ok) ==
    /\ InitStep(i, "idle", "templates", ok)
    /\ users' = IF ok THEN <<>> ELSE users
    /\ department' = IF ok THEN <<>> ELSE department
    /\ UNCHANGED <<campaigns, clicks, credentials, progress>>

\* await Template.deleteMany({}): no handler of the model reads a Template.
InitDeleteTemplates(i, ok) ==
    /\ InitStep(i, "templates", "campaigns", ok)
    /\ UNCHANGED <<users, department, campaigns, clicks, credentials, progress>>

\* await Campaign.deleteMany({})
InitDeleteCampaigns(i, ok) ==
    /\ InitStep(i, "campaigns", "clicks", ok)
    /\ campaigns' = IF ok THEN <<>> ELSE campaigns
    /\ UNCHANGED <<users, department, clicks, credentials, progress>>

\* await Click.deleteMany({})
InitDeleteClicks(i, ok) ==
    /\ InitStep(i, "clicks", "credentials", ok)
    /\ clicks' = IF ok THEN <<>> ELSE clicks
    /\ UNCHANGED <<users, department, campaigns, credentials, progress>>

\* await Credential.deleteMany({})
InitDeleteCredentials(i, ok) ==
    /\ InitStep(i, "credentials", "progress", ok)
    /\ credentials' = IF ok THEN <<>> ELSE credentials
    /\ UNCHANGED <<users, department, campaigns, clicks, progress>>

\* await EducationProgress.deleteMany({})
InitDeleteProgress(i, ok) ==
    /\ InitStep(i, "progress", "insertUsers", ok)
    /\ progress' = IF ok THEN <<>> ELSE progress
    /\ UNCHANGED <<users, department, campaigns, clicks, credentials>>

\* await User.insertMany([...])
InitInsertUsers(i, ok) ==
    /\ InitStep(i, "insertUsers", "insertTemplates", ok)
    /\ users' = IF ok THEN users \o SeedUsers ELSE users
    /\ department' = IF ok THEN department @@ SeedDepartment ELSE department
    /\ UNCHANGED <<campaigns, clicks, credentials, progress>>

\* await Template.insertMany([...]) and the response
InitInsertTemplates(i, ok) ==
    /\ InitStep(i, "insertTemplates", "done", ok)
    /\ UNCHANGED <<users, department, campaigns, clicks, credentials, progress>>

(* ------------------------------ responses ------------------------------ *)

\* The response has been sent and the handler has returned.
Retire(i) ==
    /\ req[i].pc = "done"
    /\ req' = [req EXCEPT ![i] = IdleReq]
    /\ UNCHANGED <<users, campaigns, clicks, credentials, department, progress>>

(* ------------------------------- inputs -------------------------------- *)

Strings == UNION {[1..n -> Chars] : n \in 0..MaxTextLen}

TextValues == {Undefined} \cup {Str(s) : s \in Strings}

TargetLists == UNION {[1..n -> UserIds] : n \in 0..MaxTargets}

SomeText == Str(<<"a">>)

SomeDepartment == "IT"

\* Request bodies that differ in the validated fields.
FormBodies ==
    [name : TextValues, customSubject : TextValues, customBody : TextValues,
     targetUsers : {Undefined, [items |-> <<>>], [items |-> <<1>>]},
     clicks : {0}, credentials : {0}, status : {Undefined}, _id : {Absent}]

\* Request bodies that pass validation and differ in the schema paths the
\* Campaign takes from them.
CoreBodies ==
    [name : {SomeText}, customSubject : {SomeText}, customBody : {SomeText},
     targetUsers : {[items |-> t] : t \in TargetLists \ {<<>>}},
     clicks : 0..MaxBodyCount, credentials : {0},
     status : {Undefined, [value |-> "completed"]},
     _id : {Absent} \cup CampIds]

\* The user that the recording requests of Spec name, and the bodies that
\* create the campaign they name.
TrackedUsers == {1}

TrackedBodies ==
    [name : {SomeText}, customSubject : {SomeText}, customBody : {SomeText},
     targetUsers : {[items |-> <<u>>] : u \in TrackedUsers},
     clicks : 0..MaxBodyCount, credentials : 0..MaxBodyCount,
     status : {Undefined}, _id : {Absent} \cup CampIds]

(* ---------------------------- specifications --------------------------- *)

\* Requests take the lowest free slot: slots are interchangeable.
Free(i) == \A j \in Slots : j < i => req[j].op # "idle"

\* POST /api/campaigns over slots S, bodies B and store outcomes F (TRUE: the
\* operation succeeds; FALSE: it rejects).  The Mailer may always fail.
DispatchHandlers(S, B, F) ==
    \/ \E i \in S, b \in B, id \in CampIds, ok \in F :
          Free(i) /\ DispatchSave(i, b, id, ok)
    \/ \E i \in S, ok \in F : DispatchFindUsers(i, ok)
    \/ \E i \in S, ok \in BOOLEAN : DispatchSendMail(i, ok)

\* The two click endpoints over slots S, campaign ids C, user ids U and store
\* outcomes F.
ClickHandlers(S, C, U, F) ==
    \/ \E i \in S, c \in C, u \in U, ok \in F :
          Free(i) /\ TrackFindCampaign(i, c, u, ok)
    \/ \E i \in S, ok \in F : TrackFindUser(i, ok)
    \/ \E i \in S, ok \in F : TrackSaveClick(i, ok)
    \/ \E i \in S, ok \in F : TrackIncClicks(i, ok)
    \/ \E i \in S, c \in C, u \in U, ok \in F :
          Free(i) /\ ApiClickSave(i, c, u, ok)
    \/ \E i \in S, ok \in F : ApiClickInc(i, ok)

\* The two credential endpoints, over the emails and passwords X as well.
CredentialHandlers(S, C, U, X, F) ==
    \/ \E i \in S, c \in C \cup {Absent}, u \in U \cup {Absent}, s \in X, ok \in F :
          Free(i) /\ PhishingFindCampaign(i, c, u, s, ok)
    \/ \E i \in S, ok \in F : PhishingFindUser(i, ok)
    \/ \E i \in S, ok \in F : PhishingSaveCredential(i, ok)
    \/ \E i \in S, ok \in F : PhishingIncCredentials(i, ok)
    \/ \E i \in S, c \in C, u \in U, s \in X, ok \in F :
          Free(i) /\ ApiCredentialsSave(i, c, u, s, ok)
    \/ \E i \in S, ok \in F : ApiCredentialsInc(i, ok)

\* The four recording endpoints.
RecordingHandlers(S, C, U, F) ==
    \/ ClickHandlers(S, C, U, F)
    \/ CredentialHandlers(S, C, U, {NoSecret}, F)

\* Concurrent dispatch and recording requests against a store whose
\* operations succeed.
Next ==
    \/ \E u \in TrackedUsers : CreateUser(u, SomeDepartment)
    \/ DispatchHandlers(Slots, TrackedBodies, {TRUE})
    \/ RecordingHandlers(Slots, CampIds, TrackedUsers, {TRUE})
    \/ \E i \in Slots : Retire(i)

Spec == Init /\ [][Next]_vars

\* One dispatch request at a time, over every request body, against a store
\* whose operations may fail.
NextDispatch ==
    \/ \E u \in UserIds : CreateUser(u, SomeDepartment)
    \/ DispatchHandlers({1}, FormBodies \cup CoreBodies, BOOLEAN)
    \/ Retire(1)

SpecDispatch == Init /\ [][NextDispatch]_vars

\* Dispatch with a Mailer that may also never return.  The store answers
\* every query and the event loop resumes every handler whose awaited promise
\* has settled; whether a sendMail promise settles is the Mailer's choice.
NextDispatchLive ==
    \/ NextDispatch
    \/ DispatchSendMailHangs(1)

SpecDispatchLive ==
    /\ Init
    /\ [][NextDispatchLive]_vars
    /\ WF_vars(\E ok \in BOOLEAN : DispatchFindUsers(1, ok))
    /\ WF_vars((\E ok \in BOOLEAN : DispatchSendMail(1, ok))
                  \/ DispatchSendMailHangs(1))

\* POST /api/init over slots S and store outcomes F.
InitHandlers(S, F) ==
    \/ \E i \in S, ok \in F : Free(i) /\ InitDeleteUsers(i, ok)
    \/ \E i \in S, ok \in F : InitDeleteTemplates(i, ok)
    \/ \E i \in S, ok \in F : InitDeleteCampaigns(i, ok)
    \/ \E i \in S, ok \in F : InitDeleteClicks(i, ok)
    \/ \E i \in S, ok \in F : InitDeleteCredentials(i, ok)
    \/ \E i \in S, ok \in F : InitDeleteProgress(i, ok)
    \/ \E i \in S, ok \in F : InitInsertUsers(i, ok)
    \/ \E i \in S, ok \in F : InitInsertTemplates(i, ok)

\* The emails and passwords that credential requests submit.
Secrets == {NoSecret, [email |-> Str(<<"a">>), password |-> Str(<<"a">>)]}

\* The body that creates the campaign the credential requests name: user 1
\* is its only target.
PlainBodies ==
    [name : {SomeText}, customSubject : {SomeText}, customBody : {SomeText},
     targetUsers : {[items |-> <<1>>]}, clicks : {0}, credentials : {0},
     status : {Undefined}, _id : {Absent}]

\* Recording requests one at a time against a store whose operations may
\* fail, for a campaign created with counters at 0.
NextFaults ==
    \/ \E u \in TrackedUsers : CreateUser(u, SomeDepartment)
    \/ DispatchHandlers({1}, PlainBodies, {TRUE})
    \/ RecordingHandlers({1}, CampIds, TrackedUsers, BOOLEAN)
    \/ Retire(1)

SpecFaults == Init /\ [][NextFaults]_vars

\* Dispatch, recording and POST /api/init requests, concurrently, against a
\* store whose operations succeed.
NextLifecycle ==
    \/ \E u \in TrackedUsers : CreateUser(u, SomeDepartment)
    \/ DispatchHandlers(Slots, PlainBodies, {TRUE})
    \/ RecordingHandlers(Slots, CampIds, TrackedUsers, {TRUE})
    \/ InitHandlers(Slots, {TRUE})
    \/ \E i \in Slots : Retire(i)

SpecLifecycle == Init /\ [][NextLifecycle]_vars

\* Credential requests of every user with every email and password, next to
\* click requests of the targeted user, against a store whose operations
\* succeed.
NextCredentials ==
    \/ \E u \in UserIds : CreateUser(u, SomeDepartment)
    \/ DispatchHandlers(Slots, PlainBodies, {TRUE})
    \/ \E i \in Slots, ok \in {TRUE} :
          Free(i) /\ ApiClickSave(i, 1, 1, ok)
    \/ \E i \in Slots, ok \in {TRUE} : ApiClickInc(i, ok)
    \/ CredentialHandlers(Slots, CampIds, UserIds, Secrets, {TRUE})
    \/ \E i \in Slots : Retire(i)

SpecCredentials == Init /\ [][NextCredentials]_vars

\* The department labels of the stored users: two plain ones, the empty
\* string, and one that names a property every object inherits.
Departments == {"IT", "Ventas", "", "constructor"}

\* The stores the statistics and report handlers read: up to two users with
\* their departments, up to two campaigns, and Click and Credential events of
\* users 1 and 2 (user 2 may be stored or not).
ReportUsers == {<<>>, <<1>>, <<1, 2>>}

ReportTargets == {<<1>>, <<1, 2>>, <<1, 1>>}

ReportCampaigns ==
    UNION {[S -> {[targetUsers |-> t, status |-> "active", clicks |-> 0,
                   credentials |-> 0] : t \in ReportTargets}]
           : S \in {{}, {1}, {1, 2}}}

ReportClicks ==
    UNION {[1..n -> {NewClick(1, u) : u \in UserIds}] : n \in 0..MaxReportClicks}

ReportCredentials ==
    UNION {[1..n -> {NewCredential(1, u) : u \in UserIds}]
           : n \in 0..MaxReportCredentials}

\* A campaign's counters are the numbers of the events that name it.
InitReports ==
    /\ users \in ReportUsers
    /\ department \in [SeqToSet(users) -> Departments]
    /\ clicks \in ReportClicks
    /\ credentials \in ReportCredentials
    /\ campaigns \in
          {[c \in DOMAIN cs |->
               [cs[c] EXCEPT
                  !.clicks = IF c = 1 THEN Len(clicks) ELSE 0,
                  !.credentials = IF c = 1 THEN Len(credentials) ELSE 0]]
           : cs \in ReportCampaigns}
    /\ progress = <<>>
    /\ req = [i \in Slots |-> IdleReq]

\* The three aggregation endpoints, one request at a time, over a store that
\* no request is writing; a query may fail.
NextReports ==
    \/ \E ok \in BOOLEAN : DepartmentsFindUsers(1, ok)
    \/ \E ok \in BOOLEAN : DepartmentsFindClicks(1, ok)
    \/ \E ok \in BOOLEAN : StatisticsFindUsers(1, ok)
    \/ \E ok \in BOOLEAN : StatisticsFindClicks(1, ok)
    \/ \E ok \in BOOLEAN : StatisticsFindCredentials(1, ok)
    \/ \E ok \in BOOLEAN : ReportFindUsers(1, ok)
    \/ \E ok \in BOOLEAN : ReportFindCampaigns(1, ok)
    \/ \E ok \in BOOLEAN : ReportFindClicks(1, ok)
    \/ \E ok \in BOOLEAN : ReportFindCredentials(1, ok)
    \/ Retire(1)

SpecReports == InitReports /\ [][NextReports]_vars

\* The module ids that completion requests carry.
ModuleIds == 1..MaxModule

\* The two education endpoints over slots S, user ids U, module ids M and
\* store outcomes F.
ProgressHandlers(S, U, M, F) ==
    \/ \E i \in S, u \in U, ok \in F : Free(i) /\ EducationFind(i, u, ok)
    \/ \E i \in S, ok \in F : EducationSave(i, ok)
    \/ \E i \in S, u \in U, m \in M, ok \in F : Free(i) /\ CompleteFind(i, u, m, ok)
    \/ \E i \in S, ok \in F : CompleteSave(i, ok)

\* The education and certificate endpoints.
EducationHandlers(S, U, M, F) ==
    \/ ProgressHandlers(S, U, M, F)
    \/ \E i \in S, u \in U, ok \in F : Free(i) /\ GenerateFindProgress(i, u, ok)
    \/ \E i \in S, ok \in F : GenerateFindUser(i, ok)
    \/ \E i \in S, ok \in F : GenerateSave(i, ok)
    \/ \E i \in S, u \in U, ok \in F : Free(i) /\ DownloadFindProgress(i, u, ok)
    \/ \E i \in S, ok \in F : DownloadFindUser(i, ok)
    \/ \E i \in S, ok \in F : DownloadSave(i, ok)

\* Education and certificate requests one after the other (each starts when
\* the one before has finished), for user 1, who may be stored, and user 2,
\* who is not, against a store whose operations succeed.
NextEducation ==
    \/ \E u \in TrackedUsers : CreateUser(u, SomeDepartment)
    \/ EducationHandlers({1}, UserIds, ModuleIds, {TRUE})
    \/ Retire(1)

SpecEducation == Init /\ [][NextEducation]_vars

\* Concurrent education requests of one user against a store whose
\* operations succeed.
NextEducationConcurrent ==
    \/ ProgressHandlers(Slots, TrackedUsers, ModuleIds, {TRUE})
    \/ \E i \in Slots : Retire(i)

SpecEducationConcurrent == Init /\ [][NextEducationConcurrent]_vars

(* ------------------------------- claims -------------------------------- *)

ClickOps == {"track", "apiClick"}

CredentialOps == {"phishing", "apiCredentials"}

\* The number of events of a collection that name campaign c.
EventsOf(events, c) ==
    Cardinality({k \in 1..Len(events) : events[k].campaignId = c})

Stored(c, u) == c \in DOMAIN campaigns /\ u \in SeqToSet(users)

StoreUnchanged == UNCHANGED <<users, campaigns, clicks, credentials, department, progress>>

\* The step is one of slot i's handler.
Moved(i) == req'[i] # req[i]

Recording(i) ==
    req[i].op \in ClickOps \cup CredentialOps /\ req[i].pc # "done"

\* C1: whenever no recording request is in flight, every stored campaign's
\* clicks equals the number of Click events that name it, and its credentials
\* the number of Credential events that name it.
C1_CountersMatchEvents ==
    (\A i \in Slots : ~Recording(i)) =>
        \A c \in DOMAIN campaigns :
            /\ campaigns[c].clicks = EventsOf(clicks, c)
            /\ campaigns[c].credentials = EventsOf(credentials, c)

\* Click-recording calls against c that have saved their Click and not yet
\* run their $inc, and those that have run both.
PendingClicks(c) ==
    Cardinality({i \in Slots : /\ req[i].op \in ClickOps
                               /\ req[i].pc = "inc"
                               /\ req[i].campaignId = c})

CompletedClicks(c) == EventsOf(clicks, c) - PendingClicks(c)

\* C2: in every step of every interleaving, a stored campaign's clicks grows
\* by exactly the number of click-recording calls against it that complete in
\* the step; so once K concurrent calls have completed, clicks is exactly K
\* higher than before and no increment is lost.
C2_NoLostClickIncrement ==
    [][\A c \in DOMAIN campaigns :
          c \in DOMAIN campaigns' =>
              campaigns'[c].clicks - campaigns[c].clicks
                  = CompletedClicks(c)' - CompletedClicks(c)]_vars

\* Two GET /track calls that both read the campaign before either ran its
\* $inc have both completed, and clicks is 2 above what they read.
C2_Witness ==
    \E c \in DOMAIN campaigns :
        /\ \A i \in Slots :
              /\ req[i].op = "track" /\ req[i].pc = "done" /\ req[i].status = 302
              /\ req[i].campaignId = c
        /\ \A i, j \in Slots : req[i].campaign.clicks = req[j].campaign.clicks
        /\ \A i \in Slots : campaigns[c].clicks = req[i].campaign.clicks + 2

\* C3: a click-recording call (GET /track or POST /api/track/click) appends
\* exactly one Click, and when it reports success the campaign it names has
\* had its clicks raised by exactly 1.
C3_SuccessfulClickCounts ==
    [][\A i \in Slots :
          /\ (req'[i].op \in ClickOps /\ req'[i].pc = "inc" /\ req[i].pc # "inc")
                => Len(clicks') = Len(clicks) + 1
          /\ (/\ req[i].op \in ClickOps /\ req[i].pc = "inc"
              /\ req'[i].pc = "done" /\ req'[i].status \in {200, 302})
                => /\ req[i].campaignId \in DOMAIN campaigns
                   /\ campaigns'[req[i].campaignId].clicks
                        = campaigns[req[i].campaignId].clicks + 1
                   /\ clicks' = clicks]_vars

\* C4: a dispatch answered 201 for a request with N target users reports
\* emailsSent + emailsFailed = N.
C4_SentPlusFailedIsN ==
    \A i \in Slots :
        (req[i].op = "dispatch" /\ req[i].pc = "done" /\ req[i].status = 201)
            => req[i].emailsSent + req[i].emailsFailed
                  = Len(req[i].body.targetUsers.items)

Failures(s) == Cardinality({k \in 1..Len(s) : ~s[k].ok})

Successes(s) == Cardinality({k \in 1..Len(s) : s[k].ok})

\* C5: a Mailer failure never aborts the batch or rolls back the Campaign.
\* The Mailer is invoked for the looked-up recipients in their order; after a
\* failed send the loop is still sending or has answered 201, never an error,
\* and the Campaign is still stored; a 201 answer comes only after every
\* recipient had its invocation, with emailsFailed the number of failed sends
\* and emailsSent the number of successful ones.
C5_MailFailureNeverAborts ==
    \A i \in Slots :
        req[i].op = "dispatch" =>
            LET r == req[i] IN
            /\ Len(r.sends) <= Len(r.found)
            /\ \A k \in 1..Len(r.sends) : r.sends[k].to = r.found[k]
            /\ Failures(r.sends) > 0 =>
                  /\ r.campaignId \in DOMAIN campaigns
                  /\ \/ r.pc = "send" /\ Len(r.sends) < Len(r.found)
                     \/ r.pc = "done" /\ r.status = 201
            /\ (r.pc = "done" /\ r.status = 201) =>
                  /\ Len(r.sends) = Len(r.found)
                  /\ r.emailsFailed = Failures(r.sends)
                  /\ r.emailsSent = Successes(r.sends)
                  /\ r.campaignId \in DOMAIN campaigns

\* A dispatch answered 201 whose first send failed and whose second was
\* still made.
C5_Witness ==
    \E i \in Slots :
        /\ req[i].op = "dispatch" /\ req[i].pc = "done" /\ req[i].status = 201
        /\ Len(req[i].sends) = 2
        /\ ~req[i].sends[1].ok /\ req[i].sends[2].ok
        /\ req[i].emailsFailed = 1 /\ req[i].emailsSent = 1

\* A text field that is missing or holds nothing but whitespace.
MissingOrBlank(x) ==
    \/ x = Undefined
    \/ \A k \in 1..Len(x.chars) : x.chars[k] = " "

Rejectable(b) ==
    \/ MissingOrBlank(b.name)
    \/ MissingOrBlank(b.customSubject)
    \/ MissingOrBlank(b.customBody)
    \/ b.targetUsers = Undefined
    \/ b.targetUsers.items = <<>>

\* C6: a dispatch request whose name, customSubject or customBody is missing
\* or blank after trimming, or whose targetUsers is missing or empty, is
\* answered 400 at once: no Campaign is written, the Mailer is not invoked.
C6_InvalidRequestRejected ==
    [][\A i \in Slots :
          (req[i].op = "idle" /\ req'[i].op = "dispatch" /\ Rejectable(req'[i].body))
              => /\ req'[i].pc = "done" /\ req'[i].status = 400
                 /\ req'[i].sends = <<>>
                 /\ req'[i].campaignId = Absent
                 /\ StoreUnchanged]_vars

\* A request with a whitespace-only name and a target list has been answered
\* 400.
C6_Witness ==
    \E i \in Slots :
        /\ req[i].op = "dispatch" /\ req[i].pc = "done" /\ req[i].status = 400
        /\ req[i].body.name = Str(<<" ">>)
        /\ req[i].body.customSubject = SomeText
        /\ req[i].body.customBody = SomeText
        /\ req[i].body.targetUsers = [items |-> <<1>>]
        /\ campaigns = <<>>

\* C7: a dispatch that passed validation fails only if the Campaign write
\* failed: an error response implies that the request stored no Campaign.
C7_ErrorOnlyIfWriteFailed ==
    \A i \in Slots :
        (/\ req[i].op = "dispatch" /\ req[i].pc = "done"
         /\ ~Rejectable(req[i].body) /\ req[i].status # 201)
            => req[i].campaignId = Absent

C11_SecretNeverPersisted ==
    [][\A i \in Slots :
          (req'[i].op \in CredentialOps /\ Moved(i)) =>
              \A s \in Secrets :
                  LET r == [req'[i] EXCEPT !.secret = s]
                      saves == \/ req[i].op = "phishing" /\ req[i].pc = "save"
                               \/ req[i].op = "idle" /\ r.op = "apiCredentials"
                      incs == req[i].pc = "inc"
                  IN
                  /\ UNCHANGED <<users, department, clicks, progress>>
                  /\ credentials' = IF saves THEN Append(credentials, CredentialOf(r))
                                            ELSE credentials
                  /\ campaigns' = IF incs THEN IncCredentials(i) ELSE campaigns
                  /\ \A k \in 1..Len(credentials') :
                        credentials'[k] = [campaignId |-> credentials'[k].campaignId,
                                           userId |-> credentials'[k].userId,
                                           attempted |-> TRUE]]_vars

\* Two POST /track/phishing requests of the same campaign and user, one with
\* an email and a password and one with neither, have both been recorded, and
\* their two Credentials are the same document.
C11_Witness ==
    \E i, j \in Slots :
        /\ req[i].op = "phishing" /\ req[i].pc = "done" /\ req[i].status = 200
        /\ req[j].op = "phishing" /\ req[j].pc = "done" /\ req[j].status = 200
        /\ req[i].campaignId = req[j].campaignId /\ req[i].userId = req[j].userId
        /\ req[i].secret = [email |-> Str(<<"a">>), password |-> Str(<<"a">>)]
        /\ req[j].secret = NoSecret
        /\ req[i].logged # req[j].logged
        /\ Len(credentials) = 2 /\ credentials[1] = credentials[2]
        /\ campaigns[req[i].campaignId].credentials = 2

\* The number of events of a collection that name user u.
EventsBy(events, u) ==
    Cardinality({k \in 1..Len(events) : events[k].userId = u})

Answered(i, op) ==
    req[i].op = op /\ req[i].pc = "done" /\ req[i].status = 200

\* The classification rule: more than one credential attempt is High,
\* otherwise more than two clicks is Medium, otherwise Low.
Rule(clickCount, credentialCount) ==
    IF credentialCount > 1 THEN "High"
    ELSE IF clickCount > 2 THEN "Medium" ELSE "Low"

RuleOf(u) == Rule(EventsBy(clicks, u), EventsBy(credentials, u))

Classified(risk) == {u \in SeqToSet(users) : RuleOf(u) = risk}

\* C12: the per-user statistics give every stored user the risk of the rule
\* applied to the numbers of its Click and Credential events (Alto for High,
\* Medio for Medium, Bajo for Low), and the vulnerability report counts as
\* high, medium and low the users the same rule classifies so; High wins
\* whenever there is more than one credential attempt.
C12_RiskRule ==
    \A i \in Slots :
        /\ Answered(i, "statistics") =>
              /\ Len(req[i].result) = Len(users)
              /\ \A k \in 1..Len(users) :
                    LET e == req[i].result[k] IN
                    /\ e.userId = users[k]
                    /\ e.clicks = EventsBy(clicks, users[k])
                    /\ e.credentials = EventsBy(credentials, users[k])
                    /\ e.risk = CASE RuleOf(users[k]) = "High" -> "Alto"
                                   [] RuleOf(users[k]) = "Medium" -> "Medio"
                                   [] OTHER -> "Bajo"
                    /\ e.credentials > 1 => e.risk = "Alto"
        /\ Answered(i, "report") =>
              /\ req[i].result.highRisk = Cardinality(Classified("High"))
              /\ req[i].result.mediumRisk = Cardinality(Classified("Medium"))
              /\ req[i].result.lowRisk = Cardinality(Classified("Low"))

\* The statistics have classified a user with three clicks and two credential
\* attempts as Alto.
C12_Witness ==
    \E i \in Slots :
        /\ Answered(i, "statistics")
        /\ \E k \in 1..Len(req[i].result) :
              /\ req[i].result[k].clicks = 3
              /\ req[i].result[k].credentials = 2
              /\ req[i].result[k].risk = "Alto"

UsersOf(d) == {u \in SeqToSet(users) : department[u] = d}

ClicksOf(d) ==
    Cardinality({k \in 1..Len(clicks) : clicks[k].userId \in UsersOf(d)})

EntriesOf(result, d) == {k \in 1..Len(result) : result[k].department = d}

\* C13: the department rates hold, for every department label that a stored
\* user carries, one entry whose total is the number of users with the label
\* and whose clicked is the number of Click events of those users (events,
\* not distinct users).
C13_DepartmentCounts ==
    \A i \in Slots :
        Answered(i, "departments") =>
            \A d \in Departments :
                UsersOf(d) # {} =>
                    /\ Cardinality(EntriesOf(req[i].result, d)) = 1
                    /\ \A k \in EntriesOf(req[i].result, d) :
                          /\ req[i].result[k].total = Cardinality(UsersOf(d))
                          /\ req[i].result[k].clicked = ClicksOf(d)

\* The rate is the decimal nearest to clicked / total * 100.
NearestPercent(rate, n, d) ==
    LET tenths == rate.whole * 10 + rate.tenth
        diff == tenths * d - n * 1000
    IN /\ rate = Decimal(rate.whole, rate.tenth)
       /\ rate.tenth \in 0..9
       /\ 2 * diff <= d /\ 2 * diff > -d

Targeted ==
    (IF 1 \in DOMAIN campaigns THEN Len(campaigns[1].targetUsers) ELSE 0)
      + (IF 2 \in DOMAIN campaigns THEN Len(campaigns[2].targetUsers) ELSE 0)

RateOf(rate, n) ==
    IF Targeted = 0 THEN rate = Number(0) ELSE NearestPercent(rate, n, Targeted)

\* C15: the vulnerability report gives avgClickRate and avgCredentialRate as
\* the numbers of Click and of Credential events over T, times 100, to one
\* decimal, where T sums the lengths of the targetUsers lists of the stored
\* campaigns as declared; with T = 0 both are 0.
C15_VulnerabilityRates ==
    \A i \in Slots :
        Answered(i, "report") =>
            /\ DOMAIN campaigns \subseteq {1, 2}
            /\ RateOf(req[i].result.avgClickRate, Len(clicks))
            /\ RateOf(req[i].result.avgCredentialRate, Len(credentials))

\* A report over one campaign that declared user 1 twice, with one user
\* stored, one Click and two Credentials: T = 2, 50.0 and 100.0.
C15_Witness ==
    \E i \in Slots :
        /\ Answered(i, "report")
        /\ users = <<1>>
        /\ DOMAIN campaigns = {1} /\ campaigns[1].targetUsers = <<1, 1>>
        /\ Len(clicks) = 1 /\ Len(credentials) = 2
        /\ req[i].result.avgClickRate = Decimal(50, 0)
        /\ req[i].result.avgCredentialRate = Decimal(100, 0)

NoDuplicate(s) == \A j, k \in 1..Len(s) : s[j] = s[k] => j = k

\* C16: module completion is idempotent when the calls follow one another:
\* a completion call for a module that the user's progress already holds
\* changes nothing and is answered with the progress as it is, and no
\* progress ever holds a module id twice.
C16_CompletionIdempotent ==
    [][/\ \A i \in Slots :
             (req[i].op = "idle" /\ req'[i].op = "complete") =>
                 LET k == FindOneProgress(req'[i].userId) IN
                 /\ progress' = progress
                 /\ (k # Absent /\ req'[i].moduleId \in SeqToSet(progress[k].completedModules))
                       => /\ req'[i].pc = "done" /\ req'[i].status = 200
                          /\ req'[i].progress = progress[k]
       /\ \A k \in 1..Len(progress') : NoDuplicate(progress'[k].completedModules)]_vars

\* A completion call for module 1 has been answered with a progress that
\* already held modules 1 and 2, and the stored progress is unchanged.
C16_Witness ==
    \E i \in Slots :
        /\ req[i].op = "complete" /\ req[i].pc = "done" /\ req[i].status = 200
        /\ req[i].moduleId = 1 /\ req[i].doc # Absent
        /\ req[i].progress.completedModules = <<1, 2>>
        /\ progress[req[i].doc] = req[i].progress

\* C17: POST /api/certificates/generate is refused with 400, leaving
\* certificateGenerated as it was, when the progress of the user is absent or
\* holds 2 or fewer modules, and is granted (200, certificateGenerated true)
\* when it holds 3 or more; and certificateGenerated is true only in a
\* progress with at least 3 completed modules.
C17_EligibilityByModules ==
    /\ \A k \in 1..Len(progress) :
          progress[k].certificateGenerated => Len(progress[k].completedModules) >= 3
    /\ \A i \in Slots :
          (req[i].op = "generate" /\ req[i].pc = "done") =>
              IF req[i].progress = Null \/ Len(req[i].progress.completedModules) <= 2
              THEN /\ req[i].status = 400
                   /\ req[i].doc # Absent =>
                         progress[req[i].doc].certificateGenerated
                            = req[i].progress.certificateGenerated
              ELSE /\ req[i].status = 200
                   /\ progress[req[i].doc].certificateGenerated

SendsTo(r, t) == Cardinality({k \in 1..Len(r.sends) : r.sends[k].to = t})

\* C19: in one dispatch call the Campaign is written before any Mailer
\* invocation and stays as written, no recipient is sent to twice, and when
\* the call is answered 201 the Mailer has been invoked exactly once for each
\* of the request's target users.
C19_OneSendPerTarget ==
    \A i \in Slots :
        req[i].op = "dispatch" =>
            LET r == req[i] IN
            /\ r.sends # <<>> => r.campaignId \in DOMAIN campaigns
            /\ \A t \in UserIds : SendsTo(r, t) <= 1
            /\ (r.pc = "done" /\ r.status = 201) =>
                  \A t \in SeqToSet(r.body.targetUsers.items) : SendsTo(r, t) = 1

\* C20: dispatch never blocks indefinitely: every dispatch call eventually
\* produces its response, also when the Mailer call for a recipient never
\* returns.
C20_DispatchResponds ==
    \A i \in Slots : (req[i].op = "dispatch") ~> (req[i].pc = "done")

\* C24: completedModules keeps set semantics under concurrency: for every
\* interleaving of concurrent completion calls of a user, no stored progress
\* holds a module id twice, and once a call has reported a module as completed
\* the progress of the user holds it.
C24_SetSemanticsConcurrent ==
    /\ \A k \in 1..Len(progress) : NoDuplicate(progress[k].completedModules)
    /\ \A i \in Slots :
          (req[i].op = "complete" /\ req[i].pc = "done" /\ req[i].status = 200) =>
              /\ FindOneProgress(req[i].userId) # Absent
              /\ req[i].moduleId \in
                    SeqToSet(progress[FindOneProgress(req[i].userId)].completedModules)

\* C25: there is at most one EducationProgress record per user in every
\* reachable state, also after concurrent first accesses of the same user.
C25_OneProgressPerUser ==
    \A j, k \in 1..Len(progress) :
        progress[j].userId = progress[k].userId => j = k

\* C26: every Campaign created by dispatch starts with clicks 0, credentials
\* 0 and status 'active', whatever fields the request body carries: the
\* step that stores the Campaign of a dispatch stores those values.
C26_CampaignStartsAtZero ==
    [][\A i \in Slots :
          (req[i].op = "idle" /\ req'[i].op = "dispatch" /\ req'[i].pc = "find") =>
              LET c == req'[i].campaignId
              IN  /\ c \in DOMAIN campaigns'
                  /\ campaigns'[c].clicks = 0
                  /\ campaigns'[c].credentials = 0
                  /\ campaigns'[c].status = "active"]_vars

\* C27: in every reachable state, recording calls in flight included, each
\* campaign's clicks counter is at most the number of Click events that name
\* it and its credentials counter at most the number of Credential events
\* that name it: the counter never runs ahead of the events.
C27_CounterNeverAhead ==
    \A c \in DOMAIN campaigns :
        /\ campaigns[c].clicks <= EventsOf(clicks, c)
        /\ campaigns[c].credentials <= EventsOf(credentials, c)

\* C18: the credential path checks no token and no prior click.  A POST
\* /track/phishing request that names a stored campaign and a stored user
\* goes on to save its Credential and is answered 200 whatever Click events
\* exist and whether or not the campaign targets the user: it is rejected only
\* when the campaign or the user is not stored.
C18_NoTokenNoPriorClick ==
    [][\A i \in Slots :
          (req[i].op = "phishing" /\ Moved(i)) =>
              LET c == req[i].campaignId
                  u == req[i].userId
              IN
              /\ (req[i].pc = "findUser" /\ req[i].campaign # Null
                     /\ u \in SeqToSet(users))
                    => req'[i].pc = "save"
              /\ req[i].pc = "save"
                    => /\ req'[i].pc = "inc"
                       /\ credentials' = Append(credentials, NewCredential(c, u))
              /\ req[i].pc = "inc"
                    => /\ req'[i].pc = "done" /\ req'[i].status = 200
                       /\ campaigns'[c].credentials = campaigns[c].credentials + 1
              /\ (req[i].pc = "findUser" /\ req'[i].pc = "done")
                    => req[i].campaign = Null \/ u \notin SeqToSet(users)]_vars

\* A credential attempt of user 2 has been recorded against a campaign whose
\* only target is user 1, with no Click event stored.
C18_Witness ==
    \E i \in Slots :
        /\ req[i].op = "phishing" /\ req[i].pc = "done" /\ req[i].status = 200
        /\ req[i].userId = 2
        /\ campaigns[req[i].campaignId].targetUsers = <<1>>
        /\ clicks = <<>>
        /\ credentials = <<NewCredential(req[i].campaignId, 2)>>
        /\ campaigns[req[i].campaignId].credentials = 1

\* C21: event append and counter update are transactional: when the counter
\* update of a recording call fails after its event was saved, the call is
\* answered with an error and its event is no longer in the store; so
\* whenever no recording call is in flight, the events that name a stored
\* campaign are as many as its counters say.
C21_RecordingTransactional ==
    [][\A i \in Slots :
          (/\ req[i].op \in ClickOps \cup CredentialOps /\ req[i].pc = "inc"
           /\ req'[i].pc = "done" /\ req'[i].status \notin {200, 302})
              => /\ campaigns' = campaigns
                 /\ Len(clicks') + Len(credentials')
                      = Len(clicks) + Len(credentials) - 1]_vars

IsPrefix(s, t) == Len(s) <= Len(t) /\ \A k \in 1..Len(s) : s[k] = t[k]

\* C22: after its creation a Campaign is mutated only by counter increments:
\* in every step every stored campaign stays stored, keeps its targetUsers
\* and status, and its clicks and credentials do not decrease; a step of a
\* click recording changes at most the clicks of the campaign it names and a
\* step of a credential recording at most its credentials.
C22_CampaignOnlyIncremented ==
    [][/\ \A c \in DOMAIN campaigns :
             /\ c \in DOMAIN campaigns'
             /\ campaigns'[c].targetUsers = campaigns[c].targetUsers
             /\ campaigns'[c].status = campaigns[c].status
             /\ campaigns'[c].clicks >= campaigns[c].clicks
             /\ campaigns'[c].credentials >= campaigns[c].credentials
       /\ \A i \in Slots :
             /\ (req[i].op \in ClickOps /\ Moved(i)) =>
                   campaigns' \in {campaigns, IncClicks(i)}
             /\ (req[i].op \in CredentialOps /\ Moved(i)) =>
                   campaigns' \in {campaigns, IncCredentials(i)}]_vars

\* C23: Click and Credential events are append-only: in every step the
\* stored events stay as they are, in their places, and new ones come after
\* them.
C23_EventsAppendOnly ==
    [][IsPrefix(clicks, clicks') /\ IsPrefix(credentials, credentials')]_vars

\* C10: a compat call has the outcome and the effect of the primary call on
\* the same state and (campaignId, userId): it records when the campaign and
\* the user are stored, and otherwise is rejected and appends no event.
C10_CompatMatchesPrimary ==
    [][\A i \in Slots :
          (req[i].op = "idle" /\ req'[i].op \in {"apiClick", "apiCredentials"})
              => IF Stored(req'[i].campaignId, req'[i].userId)
                 THEN req'[i].pc = "inc"
                 ELSE /\ clicks' = clicks /\ credentials' = credentials
                      /\ req'[i].pc = "done"
                      /\ req'[i].status \notin {200, 302}]_vars

====
